---- MODULE Spec2Model ----
(***************************************************************************)
(* Unity Export Checker (core.py): the coordinator object                  *)
(* unity_export_checker, its rule registry, the ordered rule list, the     *)
(* per-rule mode and the results of a run.                                 *)
(*                                                                         *)
(* Every UI callback (set_option, check, check_and_export,                 *)
(* close_main_window) runs to completion on the host's main thread, so     *)
(* each is one action.  The calls a run makes into the predicates and the  *)
(* fixers are recorded, in order, in the variable calls.  The report is    *)
(* kept as the label of the log text (core.py 299); its word-wrapped copy  *)
(* log_results only sizes that label and is left out.                      *)
(***************************************************************************)
EXTENDS Integers, Sequences, FiniteSets, TLC

(***************************************************************************)
(* Bounds                                                                  *)
(***************************************************************************)
\* longest selection pm.ls hands to check
MaxSel == 2
\* set_option calls explored in one behaviour
MaxChanges == 1

(***************************************************************************)
(* checker_option                                                          *)
(***************************************************************************)
SKIP == 0
CHECK == 1
CLEANUP == 2
\* a stored optionVar value that is none of the three modes
INVALID_OPTION == 3

checker_option == {SKIP, CHECK, CLEANUP}

(***************************************************************************)
(* Python values                                                           *)
(***************************************************************************)
None == [tag |-> "None"]
PyList(items) == [tag |-> "list", items |-> items]

DEFAULT_OBJECT_NAMES ==
  <<"pCone", "pCube", "pCylinder", "pHelix", "pPipe", "pPlane", "pPrism",
    "pPyramid", "pSolid", "pSphere", "pTorus">>

DEFAULT_MATERIAL_NAMES ==
  <<"anisotropic", "bifrostAeroMaterial", "bifrostFoamMaterial",
    "bifrostLiquidMaterial", "blinn", "hairTubeShader", "lambert",
    "layeredShader", "oceanShader", "phong", "phongE", "rampShader",
    "ShaderfxShader", "shadingMap", "StingrayPBS", "surfaceShader",
    "useBackground">>

Range(s) == {s[i] : i \in 1..Len(s)}

(***************************************************************************)
(* The host scene.  Three transform nodes:                                 *)
(*   pCube1  a cube as modelled: mesh shape, construction history, moved   *)
(*           off the origin, three UV sets, default name, materials        *)
(*           phong1 and lambert1                                           *)
(*   hero    a mesh ready for export, with the renamed blinn heroMat       *)
(*   grp     an empty group: no shape, no relatives                        *)
(***************************************************************************)
Nodes == {"pCube1", "hero", "grp"}

\* pm.nodeType of each of pm.listRelatives(node)
RelativeTypes ==
  [n \in Nodes |-> CASE n = "pCube1" -> <<"mesh">>
                     [] n = "hero"   -> <<"mesh">>
                     [] OTHER        -> <<>>]

\* node.getShape()
getShape(node) ==
  CASE node = "pCube1" -> PyList(<<"pCubeShape1">>)
    [] node = "hero"   -> PyList(<<"heroShape">>)
    [] OTHER           -> None

\* the materials reached from a shape through shadingEngine and materialInfo
\* connections, with the node type of each
ShapeMaterials(node) ==
  CASE node = "pCube1" -> <<[name |-> "phong1", type |-> "phong"],
                            [name |-> "lambert1", type |-> "lambert"]>>
    [] node = "hero"   -> <<[name |-> "heroMat", type |-> "blinn"]>>
    [] OTHER           -> <<>>

\* str.find(sub) on the names of the scene: the default names each name
\* contains as a substring ("phong1" contains "phong"; "phongE" is not in it)
NameContains(s) ==
  CASE s = "pCube1"   -> {"pCube"}
    [] s = "lambert1" -> {"lambert"}
    [] s = "phong1"   -> {"phong"}
    [] OTHER          -> {}

find(s, sub) == IF sub \in NameContains(s) THEN 0 ELSE -1

Identity == [t |-> <<0, 0, 0>>, r |-> <<0, 0, 0>>, s |-> <<1, 1, 1>>]

\* the scene when the tool is opened
InitScene ==
  [ history |-> [n \in Nodes |-> IF n = "pCube1" THEN 2 ELSE 1],
    xform   |-> [n \in Nodes |->
                   IF n = "pCube1" THEN [Identity EXCEPT !.t = <<1, 0, 0>>]
                                 ELSE Identity],
    uvSets  |-> [n \in Nodes |->
                   CASE n = "pCube1" -> PyList(<<"map1", "map2", "lightmap">>)
                     [] n = "hero"   -> PyList(<<"map1">>)
                     [] OTHER        -> None],
    sl      |-> <<>> ]

(***************************************************************************)
(* Predicates and fixers (core.py 351-460)                                 *)
(***************************************************************************)
is_not_geometry(scene, node) ==
  ~ \E i \in 1..Len(RelativeTypes[node]) : RelativeTypes[node][i] = "mesh"

remove_from_selection(scene, node) ==
  [scene EXCEPT !.sl = SelectSeq(scene.sl, LAMBDA n : n # node)]

has_construction_history(scene, node) == scene.history[node] > 1

clear_construction_history(scene, node) ==
  [scene EXCEPT !.history[node] = 1]

has_nonzero_transform(scene, node) ==
  IF scene.xform[node].t # <<0, 0, 0>> THEN TRUE
  ELSE IF scene.xform[node].r # <<0, 0, 0>> THEN TRUE
  ELSE IF scene.xform[node].s # <<1, 1, 1>> THEN TRUE
  ELSE FALSE

freeze_transform(scene, node) == [scene EXCEPT !.xform[node] = Identity]

has_more_than_two_uvs(scene, node) ==
  LET uv_sets == scene.uvSets[node]
  IN  IF uv_sets = None THEN FALSE
      ELSE IF Len(uv_sets.items) > 2 THEN TRUE
      ELSE FALSE

remove_extra_uvs(scene, node) ==
  LET all_uv_sets == scene.uvSets[node].items
  IN  [scene EXCEPT !.uvSets[node] =
         PyList(SubSeq(all_uv_sets, 1, IF Len(all_uv_sets) < 2
                                       THEN Len(all_uv_sets) ELSE 2))]

object_has_default_name(node) ==
  \E i \in 1..Len(DEFAULT_OBJECT_NAMES) : find(node, DEFAULT_OBJECT_NAMES[i]) # -1

material_has_default_name(mat) ==
  \E i \in 1..Len(DEFAULT_MATERIAL_NAMES) :
     find(mat, DEFAULT_MATERIAL_NAMES[i]) # -1

RECURSIVE MaterialsOfTypes(_, _)
\* materials.extend(sg_mat.connections(type=material_type)), one type after
\* the other in the order of DEFAULT_MATERIAL_NAMES
MaterialsOfTypes(mats, k) ==
  IF k > Len(DEFAULT_MATERIAL_NAMES) THEN <<>>
  ELSE LET found == SelectSeq(mats, LAMBDA m : m.type = DEFAULT_MATERIAL_NAMES[k])
       IN  [i \in 1..Len(found) |-> found[i].name] \o MaterialsOfTypes(mats, k + 1)

get_materials(node) ==
  IF getShape(node) = None THEN None
  ELSE PyList(MaterialsOfTypes(ShapeMaterials(node), 1))

\* The tool neither renames a node or a material nor changes a connection:
\* what get_materials, object_has_default_name and material_has_default_name
\* answer is the same throughout, and is tabulated here.
SceneMaterials == [n \in Nodes |-> get_materials(n)]

DefaultNamedNodes == {n \in Nodes : object_has_default_name(n)}

DefaultNamedMaterials ==
  {m \in UNION {{ShapeMaterials(n)[i].name : i \in 1..Len(ShapeMaterials(n))} :
                  n \in Nodes} : material_has_default_name(m)}

(***************************************************************************)
(* The rule registry (core.py 47-87)                                       *)
(***************************************************************************)
\* lookup_order with UNFROZENTR and TOOMANYUVS exchanged
lookup_order_swapped ==
  <<"NONGEOMETRY", "CONSHISTORY", "TOOMANYUVS", "UNFROZENTR",
    "DEFAULTOBJNAMES", "DEFAULTMATNAMES">>

lookup_order ==
  <<"NONGEOMETRY", "CONSHISTORY", "UNFROZENTR", "TOOMANYUVS",
    "DEFAULTOBJNAMES", "DEFAULTMATNAMES">>

Rules == Range(lookup_order)

\* a checker_function without a cleanupFn holds None there
NoFn == "None"

functions ==
  [fn_name \in Rules |->
     CASE fn_name = "NONGEOMETRY" ->
            [checkFn |-> "is_not_geometry",
             cleanupFn |-> "remove_from_selection",
             desc |-> "Selected non-geometry objects"]
       [] fn_name = "CONSHISTORY" ->
            [checkFn |-> "has_construction_history",
             cleanupFn |-> "clear_construction_history",
             desc |-> "Non-empty construction history"]
       [] fn_name = "UNFROZENTR" ->
            [checkFn |-> "has_nonzero_transform",
             cleanupFn |-> "freeze_transform",
             desc |-> "Unfrozen transforms"]
       [] fn_name = "TOOMANYUVS" ->
            [checkFn |-> "has_more_than_two_uvs",
             cleanupFn |-> "remove_extra_uvs",
             desc |-> "More than two UV sets"]
       [] fn_name = "DEFAULTOBJNAMES" ->
            [checkFn |-> "object_has_default_name",
             cleanupFn |-> NoFn,
             desc |-> "Default object names"]
       [] OTHER ->
            [checkFn |-> "materials_with_default_names",
             cleanupFn |-> NoFn,
             desc |-> "Default material names"]]

DefaultOptions ==
  [fn_name \in Rules |-> IF fn_name = "NONGEOMETRY" THEN CLEANUP ELSE CHECK]

(***************************************************************************)
(* Python dicts and lists                                                  *)
(***************************************************************************)
EmptyDict == [k \in {} |-> <<>>]

\* d[k] = v
SetItem(d, k, v) ==
  [x \in (DOMAIN d) \cup {k} |-> IF x = k THEN v ELSE d[x]]

PyBool(b) == IF b THEN "True" ELSE "False"

(***************************************************************************)
(* do_check (core.py 224-303).  st is the state of one run: the scene, the *)
(* two result dicts, objects_were_flagged, the calls made so far and the   *)
(* exception that ended the run ("" while it is running).                  *)
(***************************************************************************)
Call(fn, rule, obj, ret) == [fn |-> fn, rule |-> rule, obj |-> obj, ret |-> ret]

RECURSIVE AppendAllMats(_, _, _)
\* AppendDefaultMats without the test of the material's name
AppendAllMats(flagged, mats, k) ==
  IF k > Len(mats) THEN flagged
  ELSE AppendAllMats([flagged EXCEPT !["DEFAULTMATNAMES"] = Append(@, mats[k])],
                     mats, k + 1)

RECURSIVE AppendDefaultMats(_, _, _)
\* the loop of materials_with_default_names: every material with a default
\* name is appended to flagged_objects[functions['DEFAULTMATNAMES']]
AppendDefaultMats(flagged, mats, k) ==
  IF k > Len(mats) THEN flagged
  ELSE IF mats[k] \in DefaultNamedMaterials
       THEN AppendDefaultMats(
              [flagged EXCEPT !["DEFAULTMATNAMES"] = Append(@, mats[k])],
              mats, k + 1)
       ELSE AppendDefaultMats(flagged, mats, k + 1)

\* core.py 428-434, mats being what get_materials returned: iterating over
\* None raises TypeError
flag_default_materials(st, node, mats) ==
  IF mats = None
  THEN [st EXCEPT !.exc = "TypeError",
                  !.calls = Append(@, Call("checkFn", "DEFAULTMATNAMES",
                                           node, "raise"))]
  ELSE [st EXCEPT
          !.flagged_objects = AppendDefaultMats(@, mats.items, 1),
          !.do_flag = \E k \in 1..Len(mats.items) :
                         mats.items[k] \in DefaultNamedMaterials,
          !.calls = Append(@, Call("checkFn", "DEFAULTMATNAMES", node,
                      PyBool(\E k \in 1..Len(mats.items) :
                                mats.items[k] \in DefaultNamedMaterials)))]

\* core.py 424-434
materials_with_default_names(st, node) ==
  flag_default_materials(st, node, SceneMaterials[node])

\* fn_group.checkFn(selected_object)
checkFn(st, fn_name, node) ==
  LET fn == functions[fn_name].checkFn
      pure(b) == [st EXCEPT !.do_flag = b,
                            !.calls = Append(@, Call("checkFn", fn_name, node,
                                                     PyBool(b)))]
  IN  CASE fn = "is_not_geometry" -> pure(is_not_geometry(st.scene, node))
        [] fn = "has_construction_history" ->
             pure(has_construction_history(st.scene, node))
        [] fn = "has_nonzero_transform" ->
             pure(has_nonzero_transform(st.scene, node))
        [] fn = "has_more_than_two_uvs" ->
             pure(has_more_than_two_uvs(st.scene, node))
        [] fn = "object_has_default_name" ->
             pure(node \in DefaultNamedNodes)
        [] OTHER -> materials_with_default_names(st, node)

\* fn_group.cleanupFn(selected_object); calling None raises TypeError
cleanupFn(st, fn_name, node) ==
  LET fn == functions[fn_name].cleanupFn
      did(scene) == [st EXCEPT !.scene = scene,
                               !.calls = Append(@, Call("cleanupFn", fn_name,
                                                        node, "None"))]
  IN  CASE fn = "remove_from_selection" ->
             did(remove_from_selection(st.scene, node))
        [] fn = "clear_construction_history" ->
             did(clear_construction_history(st.scene, node))
        [] fn = "freeze_transform" -> did(freeze_transform(st.scene, node))
        [] fn = "remove_extra_uvs" -> did(remove_extra_uvs(st.scene, node))
        [] OTHER -> [st EXCEPT !.exc = "TypeError",
                               !.calls = Append(@, Call("cleanupFn", fn_name,
                                                        node, "raise"))]

\* core.py 267-272: what a run does with an object its predicate flagged
Flag(st, fn_name, is_cleanup, node) ==
  IF is_cleanup
  THEN cleanupFn([st EXCEPT !.objects_were_flagged = TRUE,
                            !.cleaned_objects[fn_name] = Append(@, node)],
                 fn_name, node)
  ELSE [st EXCEPT !.objects_were_flagged = TRUE,
                  !.flagged_objects[fn_name] = Append(@, node)]

\* IfFlag without the test of do_flag
IfFlag_unconditional(st, fn_name, is_cleanup, node) ==
  IF st.exc # "" THEN st
  ELSE Flag(st, fn_name, is_cleanup, node)

\* core.py 266: if do_flag, st being the run once checkFn has returned
IfFlag(st, fn_name, is_cleanup, node) ==
  IF st.exc # "" THEN st
  ELSE IF st.do_flag THEN Flag(st, fn_name, is_cleanup, node)
  ELSE st

\* core.py 262-272: one pass of the loop over the selected objects
ObjectStep(st, fn_name, is_cleanup, node) ==
  IF node = "None" THEN st
  ELSE IfFlag(checkFn(st, fn_name, node), fn_name, is_cleanup, node)

RECURSIVE ObjectLoop(_, _, _, _, _)
\* core.py 261: for selected_object in selected_objects
ObjectLoop(st, fn_name, is_cleanup, selected_objects, j) ==
  IF st.exc # "" \/ j > Len(selected_objects) THEN st
  ELSE ObjectLoop(ObjectStep(st, fn_name, is_cleanup, selected_objects[j]),
                  fn_name, is_cleanup, selected_objects, j + 1)

\* is_skip that never skips
is_skip_never(fn_option) == FALSE

\* core.py 235: if fn_option is self.checker_option.SKIP: continue
is_skip(fn_option) == fn_option = SKIP

\* RuleStep that cleans up in CHECK mode as it does in CLEANUP mode
RuleStep_check_cleans(st, options, fn_name, selected_objects) ==
  IF is_skip(options[fn_name]) THEN st
  ELSE IF options[fn_name] \in {CHECK, CLEANUP}
  THEN ObjectLoop([st EXCEPT !.flagged_objects = SetItem(@, fn_name, <<>>),
                             !.cleaned_objects = SetItem(@, fn_name, <<>>)],
                  fn_name, TRUE, selected_objects, 1)
  ELSE [st EXCEPT !.flagged_objects = SetItem(@, fn_name, <<>>),
                  !.exc = "ValueError"]

\* core.py 234-272: one pass of the loop over lookup_order
RuleStep(st, options, fn_name, selected_objects) ==
  IF is_skip(options[fn_name]) THEN st
  ELSE IF options[fn_name] = CHECK
  THEN ObjectLoop([st EXCEPT !.flagged_objects = SetItem(@, fn_name, <<>>)],
                  fn_name, FALSE, selected_objects, 1)
  ELSE IF options[fn_name] = CLEANUP
  THEN ObjectLoop([st EXCEPT !.flagged_objects = SetItem(@, fn_name, <<>>),
                             !.cleaned_objects = SetItem(@, fn_name, <<>>)],
                  fn_name, TRUE, selected_objects, 1)
  ELSE [st EXCEPT !.flagged_objects = SetItem(@, fn_name, <<>>),
                  !.exc = "ValueError"]

RECURSIVE RuleLoop(_, _, _, _, _)
\* core.py 231: for fn_name in self.lookup_order
RuleLoop(st, options, order, selected_objects, i) ==
  IF st.exc # "" \/ i > Len(order) THEN st
  ELSE RuleLoop(RuleStep(st, options, order[i], selected_objects),
                options, order, selected_objects, i + 1)

\* core.py 274-293.  The report lists one line per dict entry, in the
\* dict's iteration order, which Python leaves unspecified: the report is
\* kept as the two sections with the line of each rule, a line being the
\* rule's description followed by the names on it.
ReportOf(flagged_objects, cleaned_objects) ==
  [ flaggedSection |-> DOMAIN flagged_objects # {},
    flaggedLines |->
      [k \in {x \in DOMAIN flagged_objects : Len(flagged_objects[x]) # 0} |->
         [desc |-> functions[k].desc, names |-> flagged_objects[k]]],
    cleanedSection |-> DOMAIN cleaned_objects # {},
    cleanedLines |->
      [k \in DOMAIN cleaned_objects |->
         [desc |-> functions[k].desc, names |-> cleaned_objects[k]]] ]

NoReport ==
  [flaggedSection |-> FALSE, flaggedLines |-> EmptyDict,
   cleanedSection |-> FALSE, cleanedLines |-> EmptyDict]

\* core.py 226-228: the run as do_check starts it
StartRun(self) ==
  [scene |-> self.scene, flagged_objects |-> EmptyDict,
   cleaned_objects |-> EmptyDict, objects_were_flagged |-> FALSE,
   do_flag |-> FALSE, calls |-> self.calls, exc |-> ""]

\* core.py 274-303: the report, the log and the return value of the run st;
\* a run that raised leaves the log as it was
EndRun(self, st) ==
  [self EXCEPT
     !.scene = st.scene,
     !.flagged_objects = st.flagged_objects,
     !.cleaned_objects = st.cleaned_objects,
     !.calls = st.calls,
     !.exc = st.exc,
     !.log_text = IF st.exc # "" THEN @
                  ELSE ReportOf(st.flagged_objects, st.cleaned_objects),
     !.ret = IF st.exc # "" THEN ""
             ELSE IF st.objects_were_flagged THEN "False" ELSE "True"]

\* do_check on the coordinator self (a record of the variables below): its
\* state when the run returns or raises; ret is the return value, exc the
\* exception ("" when it returned)
do_check(self, selected_objects) ==
  EndRun(self, RuleLoop(StartRun(self), self.options, lookup_order,
                        selected_objects, 1))

confirmDialog(self, m) ==
  [self EXCEPT !.calls = Append(@, Call("confirmDialog", "", "", m))]

\* core.py 317-323, self being the coordinator once do_check has returned
ReportReady(self) ==
  IF self.exc # "" THEN self
  ELSE IF self.ret = "True" THEN confirmDialog(self, "No issues found!")
  ELSE confirmDialog(self, "Problems were found! Check log for details.")

\* core.py 307-323; sl is what pm.ls(sl=1, type='dagNode') returns
check(self, sl) ==
  IF Len(sl) = 0
  THEN [self EXCEPT !.selected_objects = sl, !.scene.sl = sl,
                    !.calls = <<Call("confirmDialog", "", "",
                                     "No objects selected!")>>,
                    !.exc = "", !.ret = "None", !.ready_to_export = ""]
  ELSE ReportReady(do_check([self EXCEPT !.selected_objects = sl,
                                         !.scene.sl = sl, !.calls = <<>>,
                                         !.exc = "", !.ret = "",
                                         !.ready_to_export = ""], sl))

\* core.py 344-348
do_export_as_fbx(self, path) ==
  [self EXCEPT !.calls = Append(@, Call("FBXExport", "", "", path))]

\* core.py 333-341; dialog is what pm.fileDialog2 returns: a list with the
\* chosen path, or None when the user cancels, and None[0] raises TypeError
export_selected(self, dialog) ==
  IF Len(self.selected_objects) = 0
  THEN confirmDialog(self, "No valid objects are selected!")
  ELSE IF dialog = None THEN [self EXCEPT !.exc = "TypeError", !.ret = ""]
  ELSE do_export_as_fbx(self, dialog.items[1])

\* core.py 463-464
close_main_window(self) ==
  [self EXCEPT !.main_window = FALSE,
               !.calls = Append(@, Call("deleteUI", "", "", "main_window")),
               !.ret = "None"]

\* core.py 330, self being the coordinator once export_selected has returned
CloseIfExported(self) == IF self.exc # "" THEN self ELSE close_main_window(self)

\* ExportIfReady that goes on unless check returned False
ExportIfReady_unless_false(self, dialog) ==
  IF self.exc # "" THEN self
  ELSE IF self.ret # "False"
  THEN CloseIfExported(export_selected([self EXCEPT !.ready_to_export = self.ret],
                                       dialog))
  ELSE [self EXCEPT !.ready_to_export = self.ret, !.ret = "None"]

\* core.py 327-330, self being the coordinator once check has returned: the
\* truth value of what check returned decides
ExportIfReady(self, dialog) ==
  IF self.exc # "" THEN self
  ELSE IF self.ret = "True"
  THEN CloseIfExported(export_selected([self EXCEPT !.ready_to_export = self.ret],
                                       dialog))
  ELSE [self EXCEPT !.ready_to_export = self.ret, !.ret = "None"]

\* core.py 326-330; dialog is consulted only when check returned True
check_and_export(self, sl, dialog) == ExportIfReady(check(self, sl), dialog)

\* radio_buttons with all three buttons on every row
radio_buttons_all(fn_name) == {SKIP, CHECK, CLEANUP}

\* core.py 139-154: the radio buttons show_UI draws for a rule
radio_buttons(fn_name) ==
  {SKIP}
    \cup (IF functions[fn_name].checkFn # NoFn THEN {CHECK} ELSE {})
    \cup (IF functions[fn_name].cleanupFn # NoFn THEN {CLEANUP} ELSE {})

\* core.py 219-221
set_option(self, fn_name, option) ==
  [self EXCEPT !.options[fn_name] = option,
               !.opVars = SetItem(@, fn_name, option)]

\* core.py 41-89 and 117-126: a new coordinator; a stored optionVar
\* replaces the default mode of its rule
NewInstance(opVars, scene) ==
  [ options |-> [fn_name \in Rules |->
                   IF fn_name \in DOMAIN opVars THEN opVars[fn_name]
                   ELSE DefaultOptions[fn_name]],
    opVars |-> opVars,
    scene |-> scene,
    selected_objects |-> <<>>,
    flagged_objects |-> EmptyDict,
    cleaned_objects |-> EmptyDict,
    log_text |-> NoReport,
    main_window |-> TRUE,
    calls |-> <<>>,
    exc |-> "",
    ret |-> "",
    ready_to_export |-> "" ]

(***************************************************************************)
(* State                                                                   *)
(***************************************************************************)
VARIABLES
  options,           \* self.options: rule -> mode
  opVars,            \* pm.language.Env.optionVars, the stored modes
  scene,             \* the host scene, with the active selection sl
  selected_objects,  \* self.selected_objects
  flagged_objects,   \* self.flagged_objects: rule -> names
  cleaned_objects,   \* self.cleaned_objects: rule -> names
  log_text,          \* the label of the log text
  main_window,       \* the main window is open
  callback,          \* the callback that ran last
  calls,             \* the calls it made, in order
  exc,               \* the exception that ended it, "" if none
  ret,               \* the value it returned, "" if it raised
  ready_to_export,   \* what check returned to check_and_export, "" if unset
  changes            \* set_option calls so far

vars == <<options, opVars, scene, selected_objects, flagged_objects,
          cleaned_objects, log_text, main_window, callback, calls, exc, ret,
          ready_to_export, changes>>

Self ==
  [ options |-> options, opVars |-> opVars, scene |-> scene,
    selected_objects |-> selected_objects,
    flagged_objects |-> flagged_objects,
    cleaned_objects |-> cleaned_objects, log_text |-> log_text,
    main_window |-> main_window, calls |-> calls, exc |-> exc, ret |-> ret,
    ready_to_export |-> ready_to_export ]

Becomes(self) ==
  /\ options' = self.options
  /\ opVars' = self.opVars
  /\ scene' = self.scene
  /\ selected_objects' = self.selected_objects
  /\ flagged_objects' = self.flagged_objects
  /\ cleaned_objects' = self.cleaned_objects
  /\ log_text' = self.log_text
  /\ main_window' = self.main_window
  /\ calls' = self.calls
  /\ exc' = self.exc
  /\ ret' = self.ret
  /\ ready_to_export' = self.ready_to_export

\* the selections pm.ls can return: distinct nodes, in selection order
Selections ==
  {s \in UNION {[1..n -> Nodes] : n \in 0..MaxSel} :
     \A i, j \in DOMAIN s : i # j => s[i] # s[j]}

\* what pm.fileDialog2 can return
Dialogs == {PyList(<<"out.fbx">>), None}

\* optionVars found when the tool is opened
StoredConfigs ==
  { EmptyDict,
    [k \in {"CONSHISTORY"} |-> SKIP],
    [k \in {"TOOMANYUVS"} |-> INVALID_OPTION],
    [k \in {"DEFAULTOBJNAMES"} |-> CLEANUP] }

\* the tool is opened on a scene, with the optionVars stored
InitWith(stored) ==
  /\ options = NewInstance(stored, InitScene).options
  /\ opVars = stored
  /\ scene = InitScene
  /\ selected_objects = <<>>
  /\ flagged_objects = EmptyDict
  /\ cleaned_objects = EmptyDict
  /\ log_text = NoReport
  /\ main_window = TRUE
  /\ callback = "__init__"
  /\ calls = <<>>
  /\ exc = ""
  /\ ret = ""
  /\ ready_to_export = ""
  /\ changes = 0

\* first use: no optionVar is stored, every rule has its default mode
Init == InitWith(EmptyDict)

\* optionVars left by an earlier session or written by another script
InitStored == \E stored \in StoredConfigs : InitWith(stored)

(***************************************************************************)
(* Actions: the callbacks of the UI                                        *)
(***************************************************************************)
\* a radio button of the checklist is switched on
SetOption ==
  /\ main_window
  /\ changes < MaxChanges
  /\ \E fn_name \in Rules : \E option \in radio_buttons(fn_name) :
       /\ options[fn_name] # option
       /\ Becomes([set_option(Self, fn_name, option) EXCEPT
                     !.calls = <<>>, !.exc = "", !.ret = "None",
                     !.ready_to_export = ""])
  /\ callback' = "set_option"
  /\ changes' = changes + 1

\* the button Run
Check ==
  /\ main_window
  /\ \E sl \in Selections : Becomes(check(Self, sl))
  /\ callback' = "check"
  /\ UNCHANGED changes

\* the button Run and Export Selected: check_and_export(Self, sl, dialog),
\* the file dialog being opened only when check has returned True
CheckAndExport ==
  /\ main_window
  /\ \E sl \in Selections : \E checked \in {check(Self, sl)} :
       \E dialog \in IF checked.exc = "" /\ checked.ret = "True"
                     THEN Dialogs ELSE {None} :
          Becomes(ExportIfReady(checked, dialog))
  /\ callback' = "check_and_export"
  /\ UNCHANGED changes

\* the button Close
Close ==
  /\ main_window
  /\ Becomes(close_main_window([Self EXCEPT !.calls = <<>>, !.exc = "",
                                             !.ready_to_export = ""]))
  /\ callback' = "close_main_window"
  /\ UNCHANGED changes

\* the tool is opened again: a new coordinator over the same scene and the
\* same stored optionVars
Open ==
  /\ ~ main_window
  /\ Becomes(NewInstance(opVars, scene))
  /\ callback' = "__init__"
  /\ UNCHANGED changes

Next == SetOption \/ Check \/ CheckAndExport \/ Close \/ Open

Spec == Init /\ [][Next]_vars

SpecStored == InitStored /\ [][Next]_vars

(***************************************************************************)
(* Properties                                                              *)
(***************************************************************************)
Runs == {"check", "check_and_export"}

\* the last callback was a run and it reached do_check
DoCheckRan == callback \in Runs /\ Len(selected_objects) > 0

\* do_check ran and returned
DoCheckReturned ==
  DoCheckRan /\ \E i \in 1..Len(calls) :
                   calls[i].fn = "confirmDialog"
                   /\ calls[i].ret \in {"No issues found!",
                        "Problems were found! Check log for details."}

RuleCalls == {i \in 1..Len(calls) : calls[i].fn \in {"checkFn", "cleanupFn"}}

CallsOf(fn, r) ==
  {i \in 1..Len(calls) : calls[i].fn = fn /\ calls[i].rule = r}

Pos(seq, x) == CHOOSE i \in 1..Len(seq) : seq[i] = x

\* the objects, in call order, on which fn of rule r was called with result res
ObjectsOf(fn, r, res) ==
  LET hit(c) == c.fn = fn /\ c.rule = r /\ c.ret = res
      hits == SelectSeq(calls, hit)
  IN  [i \in 1..Len(hits) |-> hits[i].obj]

HasFixer(r) == r \in {"NONGEOMETRY", "CONSHISTORY", "UNFROZENTR", "TOOMANYUVS"}

\* C1: in every run the predicate and fixer calls follow the fixed order
\* NONGEOMETRY, CONSHISTORY, UNFROZENTR, TOOMANYUVS, DEFAULTOBJNAMES,
\* DEFAULTMATNAMES of their rules, whatever the modes, and within one rule
\* the order of the selection list.
C1_FixedRuleOrder ==
  LET FixedOrder == <<"NONGEOMETRY", "CONSHISTORY", "UNFROZENTR",
                      "TOOMANYUVS", "DEFAULTOBJNAMES", "DEFAULTMATNAMES">>
  IN  \A i, j \in RuleCalls :
        i < j =>
          \/ Pos(FixedOrder, calls[i].rule) < Pos(FixedOrder, calls[j].rule)
          \/ /\ calls[i].rule = calls[j].rule
             /\ Pos(selected_objects, calls[i].obj)
                  <= Pos(selected_objects, calls[j].obj)

\* a run over two objects that called the predicates of all six rules and a
\* fixer
C1_Witness ==
  /\ DoCheckReturned
  /\ Len(selected_objects) = 2
  /\ \A r \in Rules : Cardinality(CallsOf("checkFn", r)) = 2
  /\ \E i \in RuleCalls : calls[i].fn = "cleanupFn"

\* C2: a rule in SKIP mode is never applied by do_check: no predicate or
\* fixer call, no entry in flagged_objects or cleaned_objects, no line in
\* the report, and a run reports problems only for a predicate of a rule
\* that is not skipped.
C2_SkipNeverApplied ==
  DoCheckRan =>
    /\ \A r \in Rules :
         options[r] = SKIP =>
           /\ \A i \in RuleCalls : calls[i].rule # r
           /\ r \notin DOMAIN flagged_objects
           /\ r \notin DOMAIN cleaned_objects
           /\ exc = "" => /\ r \notin DOMAIN log_text.flaggedLines
                          /\ r \notin DOMAIN log_text.cleanedLines
    /\ (exc = "" /\ "False" \in {ret, ready_to_export}) =>
         \E i \in RuleCalls : /\ calls[i].fn = "checkFn"
                              /\ calls[i].ret = "True"
                              /\ options[calls[i].rule] # SKIP

\* a run over pCube1, whose history the skipped CONSHISTORY would flag
C2_Witness ==
  /\ DoCheckReturned
  /\ options["CONSHISTORY"] = SKIP
  /\ "pCube1" \in Range(selected_objects)
  /\ scene.history["pCube1"] > 1
  /\ RuleCalls # {}

\* what the fixer of rule r changes is as the run found it
FrameOf(r) ==
  CASE r = "NONGEOMETRY" -> scene'.sl = selected_objects'
    [] r = "CONSHISTORY" -> scene'.history = scene.history
    [] r = "UNFROZENTR"  -> scene'.xform = scene.xform
    [] r = "TOOMANYUVS"  -> scene'.uvSets = scene.uvSets
    [] OTHER             -> TRUE

\* C3: a rule in CHECK mode only inspects: its fixer is never called, what
\* its fixer would change (the selection, the history, the transform, the
\* UV sets) is left as it was, and the objects its predicate holds for are
\* recorded in flagged_objects and never in cleaned_objects.
C3_CheckOnlyInspects ==
  [][ (callback' \in Runs /\ Len(selected_objects') > 0) =>
        \A r \in Rules :
          options[r] = CHECK =>
            /\ \A i \in 1..Len(calls') :
                 calls'[i].rule = r => calls'[i].fn # "cleanupFn"
            /\ FrameOf(r)
            /\ r \notin DOMAIN cleaned_objects'
            /\ \A i \in 1..Len(calls') :
                 (calls'[i].fn = "checkFn" /\ calls'[i].rule = r
                    /\ calls'[i].ret = "True")
                   => /\ r \in DOMAIN flagged_objects'
                      /\ calls'[i].obj \in Range(flagged_objects'[r]) ]_vars

\* a run in which the CHECK rules CONSHISTORY, UNFROZENTR and TOOMANYUVS all
\* flagged pCube1 and left it as it was
C3_Witness ==
  /\ DoCheckReturned
  /\ \A r \in {"CONSHISTORY", "UNFROZENTR", "TOOMANYUVS"} :
       /\ options[r] = CHECK
       /\ \E i \in CallsOf("checkFn", r) :
            calls[i].obj = "pCube1" /\ calls[i].ret = "True"
  /\ scene = [InitScene EXCEPT !.sl = scene.sl]

\* C4: for a rule with a fixer in CLEANUP mode the fixer is called on
\* exactly the objects its predicate returned true for, once each and right
\* after that predicate call; those objects are recorded in cleaned_objects
\* and not in flagged_objects.
C4_CleanupFixesFlagged ==
  DoCheckRan =>
    \A r \in Rules :
      (HasFixer(r) /\ options[r] = CLEANUP) =>
        /\ \A i \in CallsOf("checkFn", r) :
             calls[i].ret = "True" =>
               /\ i + 1 <= Len(calls)
               /\ calls[i + 1] = Call("cleanupFn", r, calls[i].obj, "None")
        /\ \A j \in CallsOf("cleanupFn", r) :
             /\ j > 1
             /\ calls[j - 1] = Call("checkFn", r, calls[j].obj, "True")
             /\ \A k \in CallsOf("cleanupFn", r) :
                  calls[k].obj = calls[j].obj => k = j
        /\ CallsOf("checkFn", r) # {} =>
             /\ r \in DOMAIN cleaned_objects
             /\ r \in DOMAIN flagged_objects
        /\ r \in DOMAIN cleaned_objects =>
             /\ cleaned_objects[r] = ObjectsOf("cleanupFn", r, "None")
             /\ cleaned_objects[r] = ObjectsOf("checkFn", r, "True")
             /\ flagged_objects[r] = <<>>

\* a run over two objects in which a fixer ran on one and not on the other
C4_Witness ==
  /\ DoCheckRan
  /\ Len(selected_objects) = 2
  /\ \E r \in Rules :
       /\ HasFixer(r) /\ options[r] = CLEANUP
       /\ Len(cleaned_objects[r]) = 1
       /\ Len(ObjectsOf("checkFn", r, "False")) = 1

\* C5: check returns True exactly when no predicate of a rule that is not
\* skipped held for a selected object, for every selection including the
\* empty one, and returns False in every other case.
C5_CheckReturnsBoolean ==
  callback = "check" =>
    IF \A i \in RuleCalls : calls[i].ret # "True"
    THEN ret = "True"
    ELSE ret = "False"

\* C6: check_and_export exports at most once, only after the check of the
\* same invocation has finished without flagging or cleaning anything,
\* never on an empty selection; it closes the main window only after such
\* an export and leaves it open otherwise.
C6_ExportOnlyIfReady ==
  LET Exports == {i \in 1..Len(calls) : calls[i].fn = "FBXExport"}
      Closes == {i \in 1..Len(calls) : calls[i].fn = "deleteUI"}
  IN  /\ callback = "check" => Exports = {} /\ main_window
      /\ callback = "check_and_export" =>
           /\ Cardinality(Exports) <= 1
           /\ \A e \in Exports :
                /\ ready_to_export = "True"
                /\ Len(selected_objects) > 0
                /\ \A i \in RuleCalls :
                     i < e /\ calls[i].fn = "checkFn" /\ calls[i].ret = "False"
                /\ \E d \in 1..(e - 1) :
                     calls[d] = Call("confirmDialog", "", "", "No issues found!")
                /\ \A r \in DOMAIN flagged_objects : flagged_objects[r] = <<>>
                /\ \A r \in DOMAIN cleaned_objects : cleaned_objects[r] = <<>>
           /\ \A c \in Closes : \E e \in Exports : e < c
           /\ main_window <=> Closes = {}
           /\ Exports = {} => main_window

\* an invocation that exported and closed the window
C6_Witness ==
  /\ callback = "check_and_export"
  /\ \E i \in 1..Len(calls) : calls[i].fn = "FBXExport"
  /\ ~ main_window

\* the entry a run leaves for DEFAULTMATNAMES: for each object the predicate
\* held for, its materials with a default name and then the object
RECURSIVE MaterialEntry(_, _)
MaterialEntry(objs, k) ==
  IF k > Len(objs) THEN <<>>
  ELSE LET mats == SelectSeq(SceneMaterials[objs[k]].items,
                             material_has_default_name)
       IN  (IF mats = <<>> THEN <<>> ELSE Append(mats, objs[k]))
             \o MaterialEntry(objs, k + 1)

\* the entry of a CHECK rule is printed under its description, unless empty
PrintedAsFlagged(r) ==
  IF flagged_objects[r] = <<>> THEN r \notin DOMAIN log_text.flaggedLines
  ELSE /\ r \in DOMAIN log_text.flaggedLines
       /\ log_text.flaggedLines[r] =
            [desc |-> functions[r].desc, names |-> flagged_objects[r]]

\* C7 as stated: after do_check the flagged_objects entry and the report
\* line of every CHECK rule, DEFAULTMATNAMES included, hold exactly the
\* selected objects its predicate held for, and the cleaned_objects entry of
\* every CLEANUP rule exactly the objects fixed.
C7_EntriesAreFlaggedObjects ==
  (DoCheckReturned /\ exc = "") =>
    \A r \in Rules :
      /\ options[r] = CHECK =>
           /\ flagged_objects[r] = ObjectsOf("checkFn", r, "True")
           /\ PrintedAsFlagged(r)
      /\ options[r] = CLEANUP =>
           cleaned_objects[r] = ObjectsOf("cleanupFn", r, "None")

\* C7 amended: as stated for the rules other than DEFAULTMATNAMES; the
\* entry and the line of DEFAULTMATNAMES hold, for each selected object the
\* predicate held for, its materials with a default name followed by the
\* object.
C7_EntriesWithMaterials ==
  (DoCheckReturned /\ exc = "") =>
    \A r \in Rules :
      /\ (options[r] = CHECK /\ r # "DEFAULTMATNAMES") =>
           /\ flagged_objects[r] = ObjectsOf("checkFn", r, "True")
           /\ PrintedAsFlagged(r)
      /\ (options[r] = CHECK /\ r = "DEFAULTMATNAMES") =>
           /\ flagged_objects[r] =
                MaterialEntry(ObjectsOf("checkFn", r, "True"), 1)
           /\ SelectSeq(flagged_objects[r], LAMBDA x : x \in Nodes)
                = ObjectsOf("checkFn", r, "True")
           /\ PrintedAsFlagged(r)
      /\ options[r] = CLEANUP =>
           /\ cleaned_objects[r] = ObjectsOf("cleanupFn", r, "None")
           /\ r \in DOMAIN log_text.cleanedLines
           /\ log_text.cleanedLines[r].names = cleaned_objects[r]

\* a second run, after one that flagged more, with pCube1 and hero checked
\* for default material names
C7_Witness ==
  /\ DoCheckReturned /\ exc = ""
  /\ options["DEFAULTMATNAMES"] = CHECK
  /\ selected_objects = <<"hero", "pCube1">>
  /\ flagged_objects["DEFAULTMATNAMES"] = <<"lambert1", "phong1", "pCube1">>
  /\ options["CONSHISTORY"] = CLEANUP
  /\ cleaned_objects["CONSHISTORY"] = <<>>
  /\ scene.history["pCube1"] = 1

\* C8: from the default modes, whatever radio buttons are switched and
\* whatever runs are made, every mode is SKIP, CHECK or CLEANUP, a rule
\* without a fixer is never in CLEANUP mode, and no run calls a missing
\* fixer.
C8_ModesValid ==
  /\ \A r \in Rules :
       /\ options[r] \in {0, 1, 2}
       /\ ~ HasFixer(r) => options[r] # 2
  /\ \A i \in 1..Len(calls) :
       ~ (calls[i].fn = "cleanupFn" /\ calls[i].ret = "raise")

\* a run made after the mode of a rule without a fixer was switched
C8_Witness ==
  /\ DoCheckRan
  /\ changes > 0
  /\ \E r \in Rules : ~ HasFixer(r) /\ options[r] = SKIP

\* C9: do_check ends with no error but the ValueError of an invalid mode,
\* raised before any call of that rule or a later one; with valid modes,
\* CLEANUP on rules with a fixer only, it returns True or False for every
\* selection, nodes without a shape included.
C9_OnlyValueError ==
  (callback = "check" /\ Len(selected_objects) > 0) =>
    LET Invalid == {r \in Rules : options[r] \notin {0, 1, 2}}
        Usable == \A r \in Rules :
                    /\ options[r] \in {0, 1, 2}
                    /\ ~ HasFixer(r) => options[r] # 2
    IN  /\ exc \in {"", "ValueError"}
        /\ exc = "ValueError" =>
             \E r \in Invalid :
               \A i \in RuleCalls :
                 Pos(lookup_order, calls[i].rule) < Pos(lookup_order, r)
        /\ Usable => exc = "" /\ ret \in {"True", "False"}

====
